---- MODULE Spec2Model ----
(***************************************************************************)
(* A model of the Emitter class of src/lib/Emitter.ts: the listener        *)
(* registry (a Map from event name to an insertion-ordered Set of          *)
(* callbacks), the listenerData metadata attached to every callback, the   *)
(* limit warning, and the promise continuations that emit leaves behind.   *)
(***************************************************************************)
EXTENDS Integers, Sequences, FiniteSets, TLC

\* ------------------------------------------------------------- bounds
\* The number of dispatcher calls (on, once, onceAsync, off, emit and the
\* host's writes of listenerData.suspended) made in one behaviour.
MaxCalls == 3
\* The number of onceAsync calls (each creates one new closure and future).
MaxAsync == 2

\* ------------------------------------------------------------- inputs
eventNames == {"foo", "bar"}

\* A callback is a function object: `text` is its source text, what
\* String(callback) yields, and `n` tells apart two function objects made
\* from the same source text.
fa == [text |-> "food => 'doner'", n |-> 1]
fb == [text |-> "food => 'kebab'", n |-> 1]
fb2 == [text |-> "food => 'kebab'", n |-> 2]
fp == [text |-> "async food => {}", n |-> 1]
ft == [text |-> "food => { throw }", n |-> 1]
userListeners == {fa, fb, fb2, fp, ft}
\* The callbacks whose suspended field the host writes.
suspendable == {fa, fp}

\* The closure that onceAsync hands to once (Emitter.ts lines 123-129).
asyncText == "(...parameters) => { resolve(parameters) }"
asyncListener(k) == [text |-> asyncText, n |-> k]
asyncListeners == {asyncListener(k) : k \in 1..MaxAsync}

allListeners == userListeners \cup asyncListeners

\* The value undefined, where a listener argument is omitted.
undefined == [text |-> "undefined", n |-> 0]

\* The argument lists passed to emit.
argLists == {<<"pide">>, <<"ayran", "salgam">>}

\* ------------------------------------------------------------- values
undefinedValue == [t |-> "undefined"]
stringValue(s) == [t |-> "string", s |-> s]
\* The promise object returned by the invocation of callback `by` in the
\* emit call number `id`.
promiseValue(id, by) == [t |-> "promise", emit |-> id, by |-> by]

\* src/unnamed/part_002 line 173: data && (data instanceof Promise ||
\* typeof data.then === "function").
isTruthy(data) ==
    /\ data.t # "undefined"
    /\ ~(data.t = "string" /\ data.s = "")
\* A faulty variant: no value is taken for promise-like.
isPromiseLikeNever(data) == FALSE
isPromiseLike(data) ==
    isTruthy(data) /\ (data.t = "promise" \/ data.t = "thenable")

\* String(x) for a function or for undefined.
String(x) == x.text

VARIABLES
    listeners,     \* this.listeners: event name -> sequence without repetition
    listenerData,  \* callback with a listenerData object -> that object
    limits,        \* this.limits
    options,       \* this.options
    warned,        \* this.warned
    warnings,      \* number of process.emitWarning calls made
    returnVal,     \* emit call number -> the Set object that call created
    promises,      \* promise objects returned by listeners -> their state
    futures,       \* onceAsync closure -> the state of the future it resolves
    firstEmit,     \* onceAsync closure -> the first emit of its event since
    invocations,   \* <<event, callback>> -> invocations since it was inserted
    before,        \* event -> pairs <<a, b>>: a was inserted before b
    nCalls,        \* dispatcher calls made
    last           \* the last call: its name, arguments and outcome

vars == <<listeners, listenerData, limits, options, warned, warnings,
          returnVal, promises, futures, firstEmit, invocations, before,
          nCalls, last>>

\* ------------------------------------------------------------- helpers
Range(s) == {s[i] : i \in 1..Len(s)}

\* Set.prototype.add on an insertion-ordered Set: a member keeps its place,
\* a new member goes to the end.
\* (SetAddFirst is a faulty variant that puts a new member first, SetAddAgain
\* one that adds a member as a list would, present or not.)
SetAddAgain(s, x) == Append(s, x)
SetAddFirst(s, x) == IF x \in Range(s) THEN s ELSE <<x>> \o s
SetAdd(s, x) == IF x \in Range(s) THEN s ELSE Append(s, x)

\* Set.prototype.delete.
SetDelete(s, x) == SelectSeq(s, LAMBDA y : y # x)

\* Map.prototype.has / delete / set on the registry.
has(reg, eventName) == eventName \in DOMAIN reg
emptyMap == [k \in {} |-> <<>>]
MapDelete(reg, eventName) == [k \in (DOMAIN reg) \ {eventName} |-> reg[k]]
MapSet(reg, eventName, s) ==
    [k \in (DOMAIN reg) \cup {eventName} |-> IF k = eventName THEN s ELSE reg[k]]

\* The fields of an empty listenerData object, which are also what
\* callback.listenerData?.field yields for a callback that has no object.
noData ==
    [onceDefined |-> FALSE, once |-> FALSE, listened |-> FALSE,
     suspended |-> FALSE]
dataOf(data, callback) ==
    IF callback \in DOMAIN data THEN data[callback] ELSE noData

\* Object.defineProperty(obj, 'once', {value}) defines a property that is
\* neither writable nor configurable; defining it again throws a TypeError
\* unless the value is the same.
definePropertyOnceThrows(d, value) == d.onceDefined /\ d.once # value
definePropertyOnce(d, value) ==
    [d EXCEPT !.onceDefined = TRUE, !.once = value]
\* Object.defineProperty(obj, 'listened', {value: true}).
definePropertyListened(d) == [d EXCEPT !.listened = TRUE]

\* Emitter.handleEmitterOptions (258-266): the resolved options.  An options
\* argument is omitted (given = FALSE) or an object whose limitWarn is
\* "undefined", "true" or "false".
DefaultEmitterOptions == [given |-> TRUE, limitWarn |-> "true"]
handleEmitterOptions(emitterOptions) ==
    LET o == IF emitterOptions.given THEN emitterOptions
             ELSE DefaultEmitterOptions
    IN  [limitWarn |-> IF o.limitWarn = "undefined" THEN "true" ELSE o.limitWarn]

\* The constructor arguments tried: <<emitterOptions, limits>>.  limits is
\* omitted (defined = FALSE) or a mapping from some event names to numbers.
noOptions == [given |-> FALSE, limitWarn |-> "undefined"]
optionsOf(limitWarn) == [given |-> TRUE, limitWarn |-> limitWarn]
noLimits == [defined |-> FALSE, of |-> emptyMap]
limitsOf(f) == [defined |-> TRUE, of |-> f]
fooLimit == limitsOf([e \in {"foo"} |-> 1])
bothLimits == limitsOf([e \in eventNames |-> IF e = "foo" THEN 2 ELSE 3])
constructorArgs ==
    { << noOptions, noLimits >>,
      << optionsOf("true"), fooLimit >>,
      << noOptions, bothLimits >>,
      << optionsOf("undefined"), bothLimits >>,
      << optionsOf("false"), bothLimits >> }

\* ------------------------------------------------------------- state
Init ==
    /\ listeners = emptyMap
    /\ listenerData = emptyMap
    /\ \E a \in constructorArgs :
          /\ options = handleEmitterOptions(a[1])
          /\ limits = a[2]
    /\ warned = FALSE
    /\ warnings = 0
    /\ returnVal = emptyMap
    /\ promises = emptyMap
    /\ futures = emptyMap
    /\ firstEmit = emptyMap
    /\ invocations = emptyMap
    /\ before = [e \in eventNames |-> {}]
    /\ nCalls = 0
    /\ last = [op |-> "new", threw |-> FALSE]

members(reg, eventName) ==
    IF has(reg, eventName) THEN Range(reg[eventName]) ELSE {}

\* The ghost order of eventName: a callback newly inserted under it comes
\* after the callbacks that are members then; a removed callback leaves it.
beforeAfter(eventName, reg) ==
    LET old == members(listeners, eventName)
        new == members(reg, eventName)
    IN  IF new = old THEN before
        ELSE [before EXCEPT ![eventName] =
                 {p \in @ \cup (old \X (new \ old)) :
                     p[1] \in new /\ p[2] \in new}]

\* The ghost count of invocations starts again at an insertion.
invocationsAfter(eventName, listener, reg) ==
    IF listener \in members(reg, eventName) \ members(listeners, eventName)
    THEN MapSet(invocations, <<eventName, listener>>, 0)
    ELSE invocations

\* The ghost count of invocations after the calls made by an emit.
RECURSIVE invocationsCalled(_, _, _)
invocationsCalled(inv, eventName, calls) ==
    IF calls = <<>> THEN inv
    ELSE invocationsCalled(
             [inv EXCEPT ![<<eventName, Head(calls).callback>>] = @ + 1],
             eventName, Tail(calls))

\* --------------------------------------------------- on, once (47-113)
\* The body shared by on (value = FALSE) and once (value = TRUE): what the
\* call does to the registry, the metadata and the warning, and whether
\* it throws.
\* (Two faulty variants of the condition of lines 59-65: one that does not
\* read the warned flag, one that compares the other way round.)
limitExceededAgain(eventName, size) ==
    /\ eventName \in DOMAIN limits.of
    /\ limits.of[eventName] > size
    /\ options.limitWarn = "true"
limitExceededWhenOver(eventName, size) ==
    /\ eventName \in DOMAIN limits.of
    /\ limits.of[eventName] < size
    /\ ~warned
    /\ options.limitWarn = "true"
limitExceeded(eventName, size) ==
    /\ eventName \in DOMAIN limits.of
    /\ limits.of[eventName] > size
    /\ ~warned
    /\ options.limitWarn = "true"

addListener(eventName, listener, value) ==
    LET d == dataOf(listenerData, listener) IN
    IF definePropertyOnceThrows(d, value)
    THEN \* TypeError: Cannot redefine property: once
         [threw |-> TRUE, reg |-> listeners, data |-> listenerData,
          warning |-> FALSE]
    ELSE LET reg == MapSet(listeners, eventName,
                        IF has(listeners, eventName)
                        THEN SetAdd(listeners[eventName], listener)
                        ELSE <<listener>>)
             data == MapSet(listenerData, listener, definePropertyOnce(d, value))
         IN  IF ~limits.defined
             THEN \* TypeError: cannot read a property of undefined
                  [threw |-> TRUE, reg |-> reg, data |-> data, warning |-> FALSE]
             ELSE [threw |-> FALSE, reg |-> reg, data |-> data,
                   warning |-> limitExceeded(eventName, Len(reg[eventName]))]

register(op, eventName, listener, value) ==
    LET r == addListener(eventName, listener, value) IN
    /\ nCalls < MaxCalls
    /\ nCalls' = nCalls + 1
    /\ listeners' = r.reg
    /\ listenerData' = r.data
    /\ warned' = (warned \/ r.warning)
    /\ warnings' = warnings + (IF r.warning THEN 1 ELSE 0)
    /\ before' = beforeAfter(eventName, r.reg)
    /\ invocations' = invocationsAfter(eventName, listener, r.reg)
    /\ last' = [op |-> op, threw |-> r.threw]
    /\ UNCHANGED <<limits, options, returnVal, promises, futures, firstEmit>>

on(eventName, listener) == register("on", eventName, listener, FALSE)

once(eventName, listener) == register("once", eventName, listener, TRUE)

\* ------------------------------------------------------ off (141-155)
\* A faulty variant of off that keeps the key of an emptied collection.
offKeepEmpty(reg, eventName, listener) ==
    IF ~has(reg, eventName) THEN reg
    ELSE LET matches == \E callback \in Range(reg[eventName]) :
                            String(listener) = String(callback)
         IN  MapSet(reg, eventName,
                    IF matches THEN SetDelete(reg[eventName], listener)
                    ELSE reg[eventName])

\* A faulty variant of off that deletes every member whose string form is
\* that of `listener`.
offEveryMatch(reg, eventName, listener) ==
    IF ~has(reg, eventName) THEN reg
    ELSE LET s == SelectSeq(reg[eventName],
                            LAMBDA callback : String(listener) # String(callback))
         IN  IF Len(s) > 0 THEN MapSet(reg, eventName, s)
             ELSE MapDelete(reg, eventName)

\* A faulty variant of off that takes an omitted listener for all of them.
offAllWhenOmitted(reg, eventName, listener) ==
    IF ~has(reg, eventName) THEN reg
    ELSE IF listener = undefined THEN MapDelete(reg, eventName)
    ELSE LET matches == \E callback \in Range(reg[eventName]) :
                            String(listener) = String(callback)
             s == IF matches THEN SetDelete(reg[eventName], listener)
                  ELSE reg[eventName]
         IN  IF Len(s) > 0 THEN MapSet(reg, eventName, s)
             ELSE MapDelete(reg, eventName)

\* The registry after this.off(eventName, listener).  Every callback of the
\* collection whose string form is that of `listener` makes the loop call
\* listeners.delete(listener): the Set loses `listener` itself, when it is
\* a member and some member has its string form, and nothing else.
offRegistry(reg, eventName, listener) ==
    IF ~has(reg, eventName) THEN reg
    ELSE LET matches == \E callback \in Range(reg[eventName]) :
                            String(listener) = String(callback)
             s == IF matches THEN SetDelete(reg[eventName], listener)
                  ELSE reg[eventName]
         IN  IF Len(s) > 0 THEN MapSet(reg, eventName, s)
             ELSE MapDelete(reg, eventName)

off(eventName, listener) ==
    /\ nCalls < MaxCalls
    /\ nCalls' = nCalls + 1
    /\ listeners' = offRegistry(listeners, eventName, listener)
    /\ before' = beforeAfter(eventName, listeners')
    /\ last' = [op |-> "off", threw |-> FALSE]
    /\ UNCHANGED <<listenerData, limits, options, warned, warnings, returnVal,
                   promises, futures, firstEmit, invocations>>

\* ------------------------------------------------- onceAsync (120-133)
\* The k-th onceAsync call creates the closure asyncListener(k) and hands it
\* to once inside the executor of a new Promise; an exception thrown by the
\* executor rejects that promise.  The call itself returns the promise.
onceAsync(eventName) ==
    LET k == Cardinality(DOMAIN futures) + 1
        listener == asyncListener(k)
        r == addListener(eventName, listener, TRUE)
    IN  /\ nCalls < MaxCalls
        /\ k <= MaxAsync
        /\ nCalls' = nCalls + 1
        /\ listeners' = r.reg
        /\ listenerData' = r.data
        /\ warned' = (warned \/ r.warning)
        /\ warnings' = warnings + (IF r.warning THEN 1 ELSE 0)
        /\ futures' = MapSet(futures, listener,
                [eventName |-> eventName,
                 state |-> IF r.threw THEN "rejected" ELSE "pending",
                 value |-> <<>>])
        /\ firstEmit' = MapSet(firstEmit, listener, <<>>)
        /\ before' = beforeAfter(eventName, r.reg)
        /\ invocations' = invocationsAfter(eventName, listener, r.reg)
        /\ last' = [op |-> "onceAsync", threw |-> FALSE, listener |-> listener]
        /\ UNCHANGED <<limits, options, returnVal, promises>>

\* resolve(parameters) on the future of an onceAsync closure: a future that
\* is settled already stays as it is.
resolve(fut, listener, parameters) ==
    IF fut[listener].state = "pending"
    THEN [fut EXCEPT ![listener].state = "fulfilled",
                     ![listener].value = parameters]
    ELSE fut

\* ------------------------------------------------ the listeners' bodies
\* What a call of `callback` does: it throws, or it returns a value.
\* (throwsNever is a faulty variant in which no call ends with an exception,
\* as if the loop caught it and went on.)
throwsNever(callback) == FALSE
throwsWhenCalled(callback) == String(callback) = String(ft)
callbackResult(callback, id) ==
    IF String(callback) = String(fa) THEN stringValue("doner")
    ELSE IF String(callback) = String(fb) THEN stringValue("kebab")
    ELSE IF String(callback) = String(fp) THEN promiseValue(id, callback)
    ELSE undefinedValue

\* ----------------------------------------------------- emit (163-192)
\* The three statements run for an immediate result at once and for a
\* promise-like result in its continuation (lines 176-180, 183-187).
\* (markListenedRemoving is a faulty variant that removes the listener
\* whatever its once flag.)
markListenedRemoving(st, eventName, callback) ==
    [st EXCEPT !.data = MapSet(st.data, callback,
                               definePropertyListened(dataOf(st.data, callback))),
               !.reg = offRegistry(st.reg, eventName, callback)]
markListened(st, eventName, callback) ==
    LET data == MapSet(st.data, callback,
                       definePropertyListened(dataOf(st.data, callback)))
    IN  [st EXCEPT !.data = data,
                   !.reg = IF data[callback].once
                           THEN offRegistry(st.reg, eventName, callback)
                           ELSE st.reg]

\* The position of the Set iterator after the body ran for the member at
\* position i: a deleted member makes its successors move up by one.
\* (nextIndexSkipping is a faulty variant that always steps on, as an
\* iteration by index over an array would.)
nextIndexSkipping(s, callback, i) == i + 1
nextIndex(s, callback, i) == IF callback \in Range(s) THEN i + 1 ELSE i

\* callback.listenerData?.suspended (line 170).
\* (isSuspendedNever is a faulty variant that reads every listener as active.)
isSuspendedNever(data, callback) == FALSE
isSuspended(data, callback) == dataOf(data, callback).suspended

\* One pass of the for-of loop over the live Set of eventName, from
\* position st.i on.  st holds the registry, the metadata, the futures, the
\* Set returnVal, the calls made and the promises whose continuation was
\* attached; st.threw says that a listener threw and ended the loop.
RECURSIVE emitLoop(_, _, _, _)
emitLoop(eventName, args, id, st) ==
    LET s == IF has(st.reg, eventName) THEN st.reg[eventName] ELSE <<>> IN
    IF st.threw \/ st.i > Len(s) THEN st
    ELSE
      LET callback == s[st.i] IN
      IF isSuspended(st.data, callback)
      THEN emitLoop(eventName, args, id, [st EXCEPT !.i = @ + 1])
      ELSE
        LET called == [st EXCEPT
                         !.calls = Append(@, [callback |-> callback, args |-> args]),
                         !.futures = IF callback \in DOMAIN st.futures
                                     THEN resolve(st.futures, callback, args)
                                     ELSE st.futures]
        IN
        IF throwsWhenCalled(callback) THEN [called EXCEPT !.threw = TRUE]
        ELSE
          LET callbackRes == callbackResult(callback, id) IN
          IF isPromiseLike(callbackRes)
          THEN emitLoop(eventName, args, id,
                        [called EXCEPT !.then = @ \cup {callbackRes},
                                       !.i = @ + 1])
          ELSE
            LET done == markListened(called, eventName, callback)
                t == IF has(done.reg, eventName) THEN done.reg[eventName] ELSE <<>>
            IN  emitLoop(eventName, args, id,
                         [done EXCEPT !.returnVal = @ \cup {callbackRes},
                                      !.i = nextIndex(t, callback, @)])

emitResult(eventName, args, id) ==
    emitLoop(eventName, args, id,
             [reg |-> listeners, data |-> listenerData, futures |-> futures,
              returnVal |-> {}, calls |-> <<>>, then |-> {}, threw |-> FALSE,
              i |-> 1])

emit(eventName, args) ==
    LET id == Cardinality(DOMAIN returnVal) + 1
        st == emitResult(eventName, args, id)
    IN  /\ nCalls < MaxCalls
        /\ nCalls' = nCalls + 1
        /\ listeners' = st.reg
        /\ listenerData' = st.data
        /\ futures' = st.futures
        /\ returnVal' = MapSet(returnVal, id, st.returnVal)
        /\ promises' = [p \in (DOMAIN promises) \cup st.then |->
                          IF p \in st.then
                          THEN [eventName |-> eventName, state |-> "pending"]
                          ELSE promises[p]]
        /\ firstEmit' = [l \in DOMAIN firstEmit |->
                          IF futures[l].eventName = eventName /\ firstEmit[l] = <<>>
                          THEN <<args>> ELSE firstEmit[l]]
        /\ invocations' = invocationsCalled(invocations, eventName, st.calls)
        /\ before' = beforeAfter(eventName, st.reg)
        /\ last' = [op |-> "emit", threw |-> st.threw, eventName |-> eventName,
                    args |-> args, calls |-> st.calls]
        /\ UNCHANGED <<limits, options, warned, warnings>>

\* --------------------------------------- the promises listeners return
\* A pending promise is fulfilled or rejected by the listener's own code.
settle(p, state) ==
    /\ p \in DOMAIN promises
    /\ promises[p].state = "pending"
    /\ promises' = [promises EXCEPT ![p].state = state]
    /\ last' = [op |-> state, threw |-> FALSE, promise |-> p]
    /\ UNCHANGED <<listeners, listenerData, limits, options, warned, warnings,
                   returnVal, futures, firstEmit, invocations, before, nCalls>>

\* The continuation that emit attached with callbackRes.then(...) (lines
\* 175-181): it is given no rejection handler, so it runs, as a job of its
\* own, only after the promise is fulfilled.
then(p) ==
    /\ p \in DOMAIN promises
    /\ promises[p].state = "fulfilled"
    /\ LET st == markListened([reg |-> listeners, data |-> listenerData],
                              promises[p].eventName, p.by)
       IN  /\ listeners' = st.reg
           /\ listenerData' = st.data
           /\ before' = beforeAfter(promises[p].eventName, st.reg)
    /\ returnVal' = [returnVal EXCEPT ![p.emit] = @ \cup {p}]
    /\ promises' = [promises EXCEPT ![p].state = "continued"]
    /\ last' = [op |-> "then", threw |-> FALSE, promise |-> p]
    /\ UNCHANGED <<limits, options, warned, warnings, futures, firstEmit,
                   invocations, nCalls>>

\* ------------------------------------------- listenerData.suspended
\* The host's own write of the suspended field (emitter.d.ts line 11) of a
\* callback it holds.
suspend(listener, value) ==
    /\ nCalls < MaxCalls
    /\ nCalls' = nCalls + 1
    /\ dataOf(listenerData, listener).suspended # value
    /\ listenerData' = MapSet(listenerData, listener,
                              [dataOf(listenerData, listener) EXCEPT
                                  !.suspended = value])
    /\ last' = [op |-> "suspend", threw |-> FALSE]
    /\ UNCHANGED <<listeners, limits, options, warned, warnings, returnVal,
                   promises, futures, firstEmit, invocations, before>>

\* ------------------------------------------------------ specification
Next ==
    \/ \E eventName \in eventNames, listener \in userListeners :
          on(eventName, listener)
    \/ \E eventName \in eventNames, listener \in userListeners :
          once(eventName, listener)
    \/ \E eventName \in eventNames : onceAsync(eventName)
    \/ \E eventName \in eventNames, listener \in userListeners \cup {undefined} :
          off(eventName, listener)
    \/ \E eventName \in eventNames, args \in argLists : emit(eventName, args)
    \/ \E p \in DOMAIN promises, state \in {"fulfilled", "rejected"} :
          settle(p, state)
    \/ \E p \in DOMAIN promises : then(p)
    \/ \E listener \in suspendable, value \in BOOLEAN :
          suspend(listener, value)

Spec == Init /\ [][Next]_vars

\* ------------------------------------------- introspection (200-251)
hasListener(eventName, callback) ==
    IF callback = undefined THEN has(listeners, eventName)
    ELSE /\ has(listeners, eventName)
         /\ \E listener \in Range(listeners[eventName]) :
               String(listener) = String(callback)

\* (isListenedAny is a faulty variant that answers whether a listener is
\* registered.)
isListenedAny(eventName) == has(listeners, eventName)
isListened(eventName) ==
    /\ has(listeners, eventName)
    /\ \E l \in Range(listeners[eventName]) : dataOf(listenerData, l).listened

RECURSIVE sumSizes(_)
sumSizes(names) ==
    IF names = {} THEN 0
    ELSE LET k == CHOOSE x \in names : TRUE
         IN  Len(listeners[k]) + sumSizes(names \ {k})

\* The test `if (eventName)` of line 240 fails for an omitted argument and
\* for the empty string alike: "" stands for both.
listenerCount(eventName) ==
    IF eventName # ""
    THEN IF has(listeners, eventName) THEN Len(listeners[eventName]) ELSE 0
    ELSE sumSizes(DOMAIN listeners)

\* ------------------------------------------------------------- claims
\* A step that is a call of emit, and the number of that call.
emitStep == last'.op = "emit" /\ nCalls' = nCalls + 1
emitId == Cardinality(DOMAIN returnVal)

\* The calls of the last emit whose result was promise-like.
promiseCalls ==
    {j \in 1..Len(last.calls) :
        callbackResult(last.calls[j].callback, emitId).t = "promise"}

\* C1: a listener registered with once (its once flag is true) is invoked
\* at most once by the emit calls made since it was inserted under an
\* event name.  (Stated, like C7 and C8, for a dispatcher with limits,
\* where no registration throws for want of them.)
C1_OnceInvokedAtMostOnce ==
    limits.defined =>
        \A e \in eventNames, l \in allListeners :
            (<<e, l>> \in DOMAIN invocations /\ dataOf(listenerData, l).once)
                => invocations[<<e, l>>] <= 1

C3_RegistrationNeverThrows ==
    [][\A e \in eventNames, l \in userListeners :
          (~limits.defined /\ (on(e, l) \/ once(e, l)))
             => (~last'.threw /\ l \in members(listeners', e))]_vars

\* C4: an emit call that returns, returns the set of the immediate (not
\* promise-like) return values of the non-suspended listeners registered
\* under the event name, each of them called with the arguments of emit.
expectedCalls(eventName) ==
    {l \in members(listeners, eventName) : ~dataOf(listenerData, l).suspended}
C4_EmitReturnsImmediateValues ==
    [][(emitStep /\ ~last'.threw) =>
         LET id == Cardinality(DOMAIN returnVal')
             called == expectedCalls(last'.eventName)
         IN  /\ returnVal'[id] =
                    {v \in {callbackResult(l, id) : l \in called} :
                        v.t # "promise"}
             /\ {last'.calls[j].callback : j \in 1..Len(last'.calls)} = called
             /\ \A j \in 1..Len(last'.calls) :
                    last'.calls[j].args = last'.args]_vars

C4_Witness ==
    /\ last.op = "emit"
    /\ ~last.threw
    /\ last.eventName = "foo"
    /\ last.args = <<"pide">>
    /\ returnVal[emitId] = {stringValue("doner"), stringValue("kebab")}

\* C5: right after off(name, L) returns, hasListener(name, L) is false: off
\* removed every member whose string form is that of L.
C5_OffRemovesEveryMatch ==
    [][\A e \in eventNames, l \in userListeners :
          off(e, l) =>
             ~(/\ has(listeners', e)
               /\ \E listener \in Range(listeners'[e]) :
                     String(listener) = String(l))]_vars

\* C6: the future of an onceAsync call is pending until the first emit of
\* its event name made after the call, and from then on it is fulfilled
\* with the argument list of that emit.
C6_FutureSettlesOnFirstEmit ==
    \A l \in DOMAIN futures :
        IF firstEmit[l] = <<>>
        THEN futures[l].state = "pending"
        ELSE futures[l].state = "fulfilled" /\ futures[l].value = firstEmit[l][1]

C8_SettledPromiseMarksListened ==
    (limits.defined /\ last.op \in {"rejected", "then"}) =>
        LET p == last.promise
            eventName == promises[p].eventName
        IN  /\ dataOf(listenerData, p.by).listened
            /\ dataOf(listenerData, p.by).once => p.by \notin members(listeners, eventName)
            /\ p \in returnVal[p.emit]

\* C9: on(name, L) for a callback L whose once flag is true does not throw:
\* it keeps the flag, inserts L and returns.  (Stated for a dispatcher
\* with limits, where the registration does not fail for want of them.)
C9_OnAfterOnceDoesNotThrow ==
    [][\A e \in eventNames, l \in userListeners :
          (limits.defined /\ dataOf(listenerData, l).once /\ on(e, l))
             => /\ ~last'.threw
                /\ dataOf(listenerData', l).once
                /\ l \in members(listeners', e)]_vars

\* C10: no event name of the registry maps to an empty collection.
C10_NoEmptyCollection ==
    \A e \in DOMAIN listeners : Len(listeners[e]) > 0

C10_Witness ==
    /\ last.op = "emit"
    /\ Len(last.calls) >= 1
    /\ ~has(listeners, last.eventName)

\* C11: an emit call does not invoke a listener whose suspended flag is
\* true: it makes no call of it, leaves its metadata (the listened flag
\* included) as it was, puts nothing in the returned set for it and keeps
\* it registered, also when it is a once-listener, so that hasListener
\* still reports it and listenerCount still counts it after the call.
suspendedMembers(eventName) ==
    {l \in members(listeners, eventName) : dataOf(listenerData, l).suspended}
C11_SuspendedListenerSkipped ==
    [][\A e \in eventNames : (emitStep /\ last'.eventName = e) =>
         LET id == Cardinality(DOMAIN returnVal')
             called == {last'.calls[j].callback : j \in 1..Len(last'.calls)}
         IN  /\ returnVal'[id] \subseteq {callbackResult(c, id) : c \in called}
             /\ listenerCount(e)' >= Cardinality(suspendedMembers(e))
             /\ \A l \in suspendedMembers(e) :
                   /\ l \notin called
                   /\ dataOf(listenerData', l) = dataOf(listenerData, l)
                   /\ l \in members(listeners', e)
                   /\ hasListener(e, l)']_vars

C11_Witness ==
    /\ last.op = "emit"
    /\ last.calls = <<>>
    /\ has(listeners, last.eventName)
    /\ \E l \in Range(listeners[last.eventName]) :
          /\ dataOf(listenerData, l).suspended
          /\ dataOf(listenerData, l).once
          /\ ~dataOf(listenerData, l).listened

\* C12: one dispatcher emits at most one limit warning, whatever the
\* registrations made and their event names: the warned flag never goes
\* back to false, no warning is emitted while it is true, and it is true
\* from the first warning on.
C12_AtMostOneWarning ==
    [][/\ warned => warned'
       /\ warned => warnings' = warnings
       /\ warnings' \in {warnings, warnings + 1}
       /\ warnings' = warnings + 1 => warned'
       /\ warnings' <= 1]_vars

C12_Witness ==
    /\ warned
    /\ warnings = 1
    /\ options.limitWarn = "true"
    /\ last.op \in {"on", "once", "onceAsync"}
    /\ \A e \in eventNames :
          /\ has(listeners, e)
          /\ limits.of[e] > listenerCount(e)

C14_ThrowAbortsLoop ==
    [][\A e \in eventNames :
          (emitStep /\ last'.eventName = e /\ has(listeners, e)) =>
             LET s == listeners[e]
                 active == {i \in 1..Len(s) : ~dataOf(listenerData, s[i]).suspended}
                 throwers == {i \in active : String(s[i]) = String(ft)}
                 id == Cardinality(DOMAIN returnVal')
                 n == Len(last'.calls)
             IN  IF throwers = {} THEN ~last'.threw
                 ELSE LET k == CHOOSE i \in throwers : \A j \in throwers : i <= j IN
                      /\ last'.threw
                      /\ n = Cardinality({i \in active : i <= k})
                      /\ {last'.calls[j].callback : j \in 1..n}
                            = {s[i] : i \in {i \in active : i <= k}}
                      /\ last'.calls[n].callback = s[k]
                      /\ \A i \in active :
                            (i < k /\ callbackResult(s[i], id).t # "promise") =>
                               /\ dataOf(listenerData', s[i]).listened
                               /\ dataOf(listenerData, s[i]).once
                                     <=> s[i] \notin members(listeners', e)
                      /\ \A i \in k..Len(s) :
                            /\ dataOf(listenerData', s[i]) = dataOf(listenerData, s[i])
                            /\ s[i] \in members(listeners', e)]_vars

C14_Witness ==
    /\ last.op = "emit"
    /\ last.threw
    /\ Len(last.calls) = 1
    /\ has(listeners, last.eventName)
    /\ LET s == listeners[last.eventName] IN
          /\ Len(s) = 2
          /\ s[1] = ft
          /\ ~dataOf(listenerData, s[1]).listened
          /\ ~dataOf(listenerData, s[2]).suspended
          /\ ~dataOf(listenerData, s[2]).listened

C18_IsListenedIffRegistered ==
    limits.defined =>
        \A e \in eventNames : isListened(e) <=> listenerCount(e) > 0

\* The names asked about: the names registered under, and the empty
\* string, which is a string key like any other.
queryNames == eventNames \cup {""}

\* C16: for every event name, listenerCount(name) is the size of name's
\* collection, and 0 when name has no collection.  (Stated for a
\* dispatcher with limits, where no registration throws for want of them.)
C16_ListenerCountIsCollectionSize ==
    limits.defined =>
        \A name \in queryNames :
            listenerCount(name) =
                IF has(listeners, name) THEN Len(listeners[name]) ELSE 0

\* C17: for every event name without listeners, listenerCount(name) is 0,
\* hasListener(name) and hasListener(name, L) are false, and emit(name)
\* calls nothing, returns an empty set and leaves the registry and the
\* metadata as they were; hasListener(name) is true exactly when name has
\* a listener.  (Stated for a dispatcher with limits.)
C17_EmptyNameReflectsEmptiness ==
    [][limits.defined =>
         \A name \in queryNames :
            /\ hasListener(name, undefined)' <=> name \in DOMAIN listeners'
            /\ name \notin DOMAIN listeners' =>
                  /\ listenerCount(name)' = 0
                  /\ ~hasListener(name, undefined)'
                  /\ \A L \in userListeners : ~hasListener(name, L)'
            /\ (emitStep /\ last'.eventName = name /\ name \notin DOMAIN listeners) =>
                  /\ last'.calls = <<>>
                  /\ ~last'.threw
                  /\ returnVal'[emitId'] = {}
                  /\ listeners' = listeners
                  /\ listenerData' = listenerData]_vars

\* C19: an emit call that returns and that removed a once-listener from the
\* collection it was iterating has called every non-suspended listener
\* that was registered under the name when it started exactly once,
\* whether it stood before or after the removed one, also when the
\* removals emptied the collection and deleted the key.
C19_RemovalSkipsNoSibling ==
    [][\A e \in eventNames :
          (/\ emitStep /\ last'.eventName = e /\ ~last'.threw
           /\ members(listeners, e) \ members(listeners', e) # {})
             => \A l \in members(listeners, e) :
                   Cardinality({j \in 1..Len(last'.calls) :
                                   last'.calls[j].callback = l})
                      = IF dataOf(listenerData, l).suspended THEN 0 ELSE 1]_vars

C19_Witness ==
    /\ last.op = "emit"
    /\ ~last.threw
    /\ Len(last.calls) = 2
    /\ last.calls[1].callback # last.calls[2].callback
    /\ ~has(listeners, last.eventName)

\* C20: on(x, L) for a listener L already registered under x with on leaves
\* the registry as it was, so listenerCount(x) and the position of L are
\* those reached by the first call.  An emit(x, ...) keeps such a listener
\* registered and calls it at most once, with the arguments of emit; it
\* calls it exactly once when L is not suspended and no listener called
\* before it throws.
C20_RegistrationIdempotent ==
    [][\A e \in eventNames :
          /\ \A l \in userListeners :
                (/\ last'.op = "on"
                 /\ l \in members(listeners, e)
                 /\ ~dataOf(listenerData, l).once
                 /\ on(e, l))
                   => /\ listeners' = listeners
                      /\ listenerCount(e)' = listenerCount(e)
          /\ (emitStep /\ last'.eventName = e /\ has(listeners, e)) =>
                LET s == listeners[e] IN
                \A i \in 1..Len(s) :
                   ~dataOf(listenerData, s[i]).once =>
                      LET calls == {j \in 1..Len(last'.calls) :
                                      last'.calls[j].callback = s[i]}
                          stopped ==
                             \E k \in 1..(i - 1) :
                                /\ ~dataOf(listenerData, s[k]).suspended
                                /\ String(s[k]) = String(ft)
                      IN  /\ s[i] \in members(listeners', e)
                          /\ \A j \in calls : last'.calls[j].args = last'.args
                          /\ Cardinality(calls) =
                                IF dataOf(listenerData, s[i]).suspended \/ stopped
                                THEN 0 ELSE 1]_vars

C20_Witness ==
    /\ last.op = "emit"
    /\ Len(last.args) = 2
    /\ has(listeners, last.eventName)
    /\ \E l \in Range(listeners[last.eventName]) :
          /\ ~dataOf(listenerData, l).once
          /\ invocations[<<last.eventName, l>>] = 2
          /\ last.calls = <<[callback |-> l, args |-> last.args]>>

\* C21: off(name) with the listener omitted, and off(name, L) for a name
\* that has no collection, change neither the registry nor the metadata of
\* any listener, and return without an error.
C21_OffWithoutTargetIsNoOp ==
    [][last'.op = "off" =>
         \A e \in eventNames, l \in userListeners \cup {undefined} :
            ((l = undefined \/ ~has(listeners, e)) /\ off(e, l))
               => /\ listeners' = listeners
                  /\ listenerData' = listenerData
                  /\ ~last'.threw]_vars

C21_Witness ==
    /\ last.op = "off"
    /\ ~last.threw
    /\ DOMAIN listeners = {"foo"}
    /\ listeners["foo"] = <<fb, fb2>>

\* C22: a call of on or once that raises an error leaves the registry as it
\* was before the call.
C22_FailedRegistrationChangesNothing ==
    [][(last'.op \in {"on", "once"} /\ last'.threw) =>
          /\ listeners' = listeners
          /\ \A e \in eventNames : listenerCount(e)' = listenerCount(e)]_vars

\* C23: emit(x) changes nothing that is asked about another event name y:
\* y's collection is as before, and so are the results of hasListener(y),
\* hasListener(y, L), listenerCount(y) and isListened(y), also when a
\* callback is registered under both names.  (Stated for a dispatcher with
\* limits, where no registration throws for want of them.)
C23_EmitTouchesOneEventOnly ==
    [][limits.defined =>
         \A x \in eventNames, y \in eventNames :
            (x # y /\ emitStep /\ last'.eventName = x) =>
               /\ has(listeners', y) <=> has(listeners, y)
               /\ has(listeners, y) => listeners'[y] = listeners[y]
               /\ hasListener(y, undefined)' <=> hasListener(y, undefined)
               /\ \A L \in userListeners : hasListener(y, L)' <=> hasListener(y, L)
               /\ listenerCount(y)' = listenerCount(y)
               /\ isListened(y)' <=> isListened(y)]_vars

\* C24: an emit call adds no listener under any name.  When it returns, it
\* has removed from the collection of its name exactly the non-suspended
\* once-listeners whose call returned an immediate value: the listeners
\* registered with on, the suspended ones and the once-listeners whose
\* result is a pending promise are registered as before, in their order,
\* and listenerCount of the name is smaller by the number of removals.
C24_EmitRemovesOnlyFiredOnce ==
    [][\A x \in eventNames : (emitStep /\ last'.eventName = x) =>
         LET old == members(listeners, x)
             new == members(listeners', x)
             fired == {l \in old :
                         /\ ~dataOf(listenerData, l).suspended
                         /\ dataOf(listenerData, l).once
                         /\ String(l) # String(ft)
                         /\ callbackResult(l, emitId').t # "promise"}
         IN  /\ \A y \in eventNames :
                   members(listeners', y) \subseteq members(listeners, y)
             /\ ~last'.threw =>
                   /\ old \ new = fired
                   /\ listenerCount(x)' = listenerCount(x) - Cardinality(fired)
                   /\ new # {} =>
                         listeners'[x] = SelectSeq(listeners[x],
                                                   LAMBDA l : l \notin fired)]_vars

C24_Witness ==
    /\ last.op = "emit"
    /\ ~last.threw
    /\ Len(last.calls) = 2
    /\ listenerCount(last.eventName) = 1
    /\ \E j \in 1..2 :
          LET l == last.calls[j].callback IN
          /\ l \in members(listeners, last.eventName)
          /\ dataOf(listenerData, l).once
          /\ callbackResult(l, emitId).t = "promise"
    /\ \E j \in 1..2 :
          LET l == last.calls[j].callback IN
          /\ l \notin members(listeners, last.eventName)
          /\ dataOf(listenerData, l).once
          /\ dataOf(listenerData, l).listened

====
